---- MODULE Spec2Model ----
(***************************************************************************)
(* Deserialization of a function parameter (ethabi, src/param.rs).         *)
(*                                                                         *)
(* ParamVisitor::visit_map pulls the keys of a record from a MapAccess     *)
(* cursor one at a time, fills the three optional slots name / kind /      *)
(* components, and, once the cursor reports the end of the record, binds   *)
(* the kinds of the components to the tuple the type string denotes.       *)
(* One step of the model is one iteration of the `while let` loop; the     *)
(* code after the loop belongs to the step in which next_key yields None.  *)
(***************************************************************************)
EXTENDS Integers, Sequences, FiniteSets, TLC

(***************************************************************************)
(* Bounds of the checked input space.                                      *)
(***************************************************************************)
MaxKeys == 4    \* longest free key stream
MaxDims == 2    \* most array suffixes on a type string
MaxSize == 2    \* largest N of a "[N]" suffix
MaxNest == 2    \* deepest tuple-in-tuple nesting of a components list

(***************************************************************************)
(* Values.                                                                 *)
(***************************************************************************)
None == [some |-> FALSE]
Some(v) == [some |-> TRUE, val |-> v]

Ok(v) == [ok |-> TRUE, val |-> v]
Err(e) == [ok |-> FALSE, err |-> e]

Address == [tag |-> "Address"]
Uint(n) == [tag |-> "Uint", size |-> n]
Tuple(fields) == [tag |-> "Tuple", fields |-> fields]
Array(inner) == [tag |-> "Array", inner |-> inner]
FixedArray(inner, size) == [tag |-> "FixedArray", inner |-> inner, size |-> size]

Param(n, k) == [name |-> n, kind |-> k]

duplicate_field(f) == [tag |-> "DuplicateField", field |-> f]
missing_field(f) == [tag |-> "MissingField", field |-> f]
InvalidName == [tag |-> "InvalidName", field |-> ""]
ExpectedObjectCommaOrEnd == [tag |-> "ExpectedObjectCommaOrEnd", field |-> ""]

(***************************************************************************)
(* The input.  A record is the sequence of its key/value entries in source *)
(* order.  A type string is its base word followed by array suffixes,      *)
(* "[]" (Dyn) or "[N]" (Fix(N)), the last suffix being the outermost.      *)
(***************************************************************************)
Dyn == [fixed |-> FALSE, size |-> 0]
Fix(n) == [fixed |-> TRUE, size |-> n]
Ty(base, dims) == [base |-> base, dims |-> dims]
NoTy == Ty("", <<>>)

NameE(s) == [key |-> "name", str |-> s, ty |-> NoTy, comps |-> <<>>]
TypeE(t) == [key |-> "type", str |-> "", ty |-> t, comps |-> <<>>]
CompsE(cs) == [key |-> "components", str |-> "", ty |-> NoTy, comps |-> cs]
OtherE(k) == [key |-> k, str |-> "address", ty |-> NoTy, comps |-> <<>>]

RecognizedKeys == {"name", "type", "components"}

(***************************************************************************)
(* The type-descriptor parser behind `map.next_value::<ParamType>()`.      *)
(***************************************************************************)
ReadBase(base) ==
    CASE base = "address" -> Ok(Address)
      [] base = "uint48" -> Ok(Uint(48))
      [] base = "tuple" -> Ok(Tuple(<<>>))
      [] OTHER -> Err(InvalidName)

RECURSIVE Read(_)
Read(t) ==
    IF t.dims = <<>>
    THEN ReadBase(t.base)
    ELSE LET n == Len(t.dims)
             last == t.dims[n]
             subtype == Read(Ty(t.base, SubSeq(t.dims, 1, n - 1)))
         IN  IF ~subtype.ok THEN subtype
             ELSE IF last.fixed THEN Ok(FixedArray(subtype.val, last.size))
             ELSE Ok(Array(subtype.val))

(***************************************************************************)
(* The MapAccess cursor.  `unread` holds while the cursor stands on a      *)
(* value that next_value has not consumed.  A cursor over parsed values    *)
(* ("from_value") drops such a value when asked for the next key; a cursor *)
(* over text ("from_str") finds the ':' of the value where it expects ','  *)
(* or '}' and reports a syntax error.                                      *)
(***************************************************************************)
Readers == {"from_value", "from_str"}

next_key(s, record, reader) ==
    IF s.unread /\ reader = "from_str" THEN Err(ExpectedObjectCommaOrEnd)
    ELSE IF s.pos = Len(record) THEN Ok(None)
    ELSE Ok(Some(record[s.pos + 1]))

AtValue(s) == [s EXCEPT !.pos = @ + 1, !.unread = TRUE]

next_value(s) == [s EXCEPT !.unread = FALSE]

NoResult == [ok |-> FALSE, err |-> [tag |-> "", field |-> ""]]

\* `return Err(..)` or `?` inside the loop; the return that ends lines 105-133.
Abort(s, e) == [s EXCEPT !.pc = "aborted", !.result = e]
Return(s, r) == [s EXCEPT !.pc = "done", !.result = r]

(***************************************************************************)
(* The arms of the match on the key, lines 83-102.                         *)
(***************************************************************************)
NameArm(s, entry) ==
    IF s.name.some
    THEN Abort(s, Err(duplicate_field("name")))
    ELSE [next_value(s) EXCEPT !.name = Some(entry.str)]

\* Mutant: a type string that does not parse is skipped instead of returned.
TypeArm_swallow(s, entry) ==
    IF s.kind.some
    THEN Abort(s, Err(duplicate_field("kind")))
    ELSE LET r == Read(entry.ty)
         IN  IF r.ok
             THEN [next_value(s) EXCEPT !.kind = Some(r.val)]
             ELSE next_value(s)

TypeArm(s, entry) ==
    IF s.kind.some
    THEN Abort(s, Err(duplicate_field("kind")))
    ELSE LET r == Read(entry.ty)
         IN  IF r.ok
             THEN [next_value(s) EXCEPT !.kind = Some(r.val)]
             ELSE Abort(next_value(s), r)

RECURSIVE TupleParam_deserialize(_, _)

RECURSIVE DeserializeVec(_, _, _)
DeserializeVec(records, reader, acc) ==
    IF records = <<>>
    THEN Ok(acc)
    ELSE LET r == TupleParam_deserialize(Head(records), reader)
         IN  IF r.ok
             THEN DeserializeVec(Tail(records), reader, Append(acc, r.val))
             ELSE r

ComponentsArm(s, entry, reader) ==
    IF s.components.some
    THEN Abort(s, Err(duplicate_field("components")))
    ELSE LET r == DeserializeVec(entry.comps, reader, <<>>)
         IN  IF r.ok
             THEN [next_value(s) EXCEPT !.components = Some(r.val)]
             ELSE Abort(next_value(s), r)

OtherArm(s) == s

(***************************************************************************)
(* After the loop, lines 105-133.                                          *)
(***************************************************************************)
\* Mutant: the kinds are collected back to front.
RECURSIVE Kinds_reversed(_)
Kinds_reversed(tuple_params) ==
    IF tuple_params = <<>>
    THEN <<>>
    ELSE Kinds_reversed(Tail(tuple_params)) \o <<Head(tuple_params).kind>>

RECURSIVE Kinds(_)
Kinds(tuple_params) ==
    IF tuple_params = <<>>
    THEN <<>>
    ELSE <<Head(tuple_params).kind>> \o Kinds(Tail(tuple_params))

\* Mutant: a missing components list counts as an empty one.
TupleKind_defaulting(components) ==
    IF ~components.some
    THEN Ok(Tuple(<<>>))
    ELSE Ok(Tuple(Kinds(components.val)))

TupleKind(components) ==
    IF ~components.some
    THEN Err(missing_field("components"))
    ELSE Ok(Tuple(Kinds(components.val)))

\* Mutant: the array arm forgets to bind the components.
ArrayKind_unbound(inner_param_type, components) ==
    Ok(Array(inner_param_type))

ArrayKind(inner_param_type, components) ==
    IF inner_param_type.tag = "Tuple"
    THEN LET t == TupleKind(components)
         IN  IF t.ok THEN Ok(Array(t.val)) ELSE t
    ELSE Ok(Array(inner_param_type))

\* Mutant: the fixed-array arm builds what the array arm builds, losing the size.
FixedArrayKind_unsized(inner_param_type, size, components) ==
    IF inner_param_type.tag = "Tuple"
    THEN LET t == TupleKind(components)
         IN  IF t.ok THEN Ok(Array(t.val)) ELSE t
    ELSE Ok(FixedArray(inner_param_type, size))

FixedArrayKind(inner_param_type, size, components) ==
    IF inner_param_type.tag = "Tuple"
    THEN LET t == TupleKind(components)
         IN  IF t.ok THEN Ok(FixedArray(t.val, size)) ELSE t
    ELSE Ok(FixedArray(inner_param_type, size))

\* Mutant: a components list, where present, is bound whatever the type.
ResolveKind_greedy(param_type, components) ==
    CASE param_type.tag = "Tuple" -> TupleKind(components)
      [] param_type.tag = "Array" -> ArrayKind(param_type.inner, components)
      [] param_type.tag = "FixedArray" ->
            FixedArrayKind(param_type.inner, param_type.size, components)
      [] OTHER -> IF components.some THEN TupleKind(components) ELSE Ok(param_type)

ResolveKind(param_type, components) ==
    CASE param_type.tag = "Tuple" -> TupleKind(components)
      [] param_type.tag = "Array" -> ArrayKind(param_type.inner, components)
      [] param_type.tag = "FixedArray" ->
            FixedArrayKind(param_type.inner, param_type.size, components)
      [] OTHER -> Ok(param_type)

Finish(s) ==
    IF ~s.name.some THEN Err(missing_field("name"))
    ELSE IF ~s.kind.some THEN Err(missing_field("kind"))
    ELSE LET k == ResolveKind(s.kind.val, s.components)
         IN  IF k.ok THEN Ok(Param(s.name.val, k.val)) ELSE k

(***************************************************************************)
(* One iteration of the loop, and the whole of visit_map as the nested     *)
(* records of a components list run it.                                    *)
(***************************************************************************)
Start ==
    [name |-> None, kind |-> None, components |-> None,
     pos |-> 0, unread |-> FALSE, pc |-> "loop", result |-> NoResult]

Iterate(s, record, reader) ==
    LET k == next_key(s, record, reader)
    IN  IF ~k.ok THEN Abort(s, k)
        ELSE IF ~k.val.some THEN Return(s, Finish(s))
        ELSE LET entry == k.val.val
                 v == AtValue(s)
             IN  CASE entry.key = "name" -> NameArm(v, entry)
                   [] entry.key = "type" -> TypeArm(v, entry)
                   [] entry.key = "components" -> ComponentsArm(v, entry, reader)
                   [] OTHER -> OtherArm(v)

RECURSIVE visit_map(_, _, _)
visit_map(s, record, reader) ==
    IF s.pc # "loop" THEN s.result
    ELSE visit_map(Iterate(s, record, reader), record, reader)

deserialize(record, reader) == visit_map(Start, record, reader)

\* A component is read by the same rules as a parameter.
TupleParam_deserialize(record, reader) == deserialize(record, reader)

(***************************************************************************)
(* The records the model is run on.                                        *)
(***************************************************************************)
RECURSIVE SeqsUpTo(_, _)
SeqsUpTo(S, n) ==
    IF n = 0 THEN {<<>>}
    ELSE LET shorter == SeqsUpTo(S, n - 1)
         IN  shorter \cup {Append(q, x) : q \in {r \in shorter : Len(r) = n - 1}, x \in S}

Suffixes == {Dyn} \cup {Fix(n) : n \in 1..MaxSize}
TypeStrings == {Ty(b, d) : b \in {"address", "tuple", "bogus"}, d \in SeqsUpTo(Suffixes, MaxDims)}

LeafA == <<NameE("to"), TypeE(Ty("address", <<>>))>>
LeafU == <<NameE("amount"), TypeE(Ty("uint48", <<>>))>>
LeafBogus == <<NameE("x"), TypeE(Ty("bogus", <<>>))>>
LeafNoName == <<TypeE(Ty("address", <<>>))>>
LeafExtra == <<NameE("y"), OtherE("internalType"), TypeE(Ty("address", <<>>))>>

\* A tuple nested d levels deep around a leaf record.
RECURSIVE Nested(_, _)
Nested(leaf, d) ==
    IF d = 0 THEN leaf
    ELSE <<NameE("things"), TypeE(Ty("tuple", <<>>)), CompsE(<<LeafU, Nested(leaf, d - 1)>>)>>

NestedArray ==
    <<CompsE(<<LeafA, LeafU>>), NameE("pairs"), TypeE(Ty("tuple", <<Fix(MaxSize)>>))>>

GoodLists ==
    {<<>>, <<LeafA>>, <<LeafU, LeafA>>, <<LeafU, LeafA, LeafA>>, <<NestedArray, LeafA>>}
        \cup {<<LeafU, Nested(LeafA, d)>> : d \in 1..MaxNest}
BadLists ==
    {<<LeafU, LeafBogus, LeafNoName>>, <<LeafNoName>>, <<LeafA, LeafExtra>>}
        \cup {<<Nested(LeafBogus, d), LeafNoName>> : d \in 1..MaxNest}
ComponentLists == GoodLists \cup BadLists

\* Every stream of at most MaxKeys entries over a small alphabet: any order,
\* any repetition, any omission, with and without unrecognized keys.
StreamEntries ==
    {NameE("foo"), TypeE(Ty("address", <<>>)), TypeE(Ty("tuple", <<>>)),
     TypeE(Ty("tuple", <<Dyn>>)), TypeE(Ty("tuple", <<Fix(1)>>)),
     TypeE(Ty("bogus", <<>>)),
     CompsE(<<>>), CompsE(<<LeafU, LeafA>>), CompsE(<<LeafNoName>>),
     OtherE("internalType")}
Streams == SeqsUpTo(StreamEntries, MaxKeys)

\* Every type string and every components list, in records of a few shapes.
Shaped ==
    UNION {{<<NameE("foo"), TypeE(t), CompsE(c)>>,
            <<CompsE(c), TypeE(t), NameE("bar")>>,
            <<NameE("foo"), TypeE(t)>>} : t \in TypeStrings, c \in ComponentLists}

Records == Streams \cup Shaped

(***************************************************************************)
(* The state machine: one visit_map call on the record `map`.              *)
(***************************************************************************)
VARIABLES map, reader, name, kind, components, pos, unread, pc, result

vars == <<map, reader, name, kind, components, pos, unread, pc, result>>

Cur ==
    [name |-> name, kind |-> kind, components |-> components,
     pos |-> pos, unread |-> unread, pc |-> pc, result |-> result]

Becomes(s) ==
    /\ name' = s.name
    /\ kind' = s.kind
    /\ components' = s.components
    /\ pos' = s.pos
    /\ unread' = s.unread
    /\ pc' = s.pc
    /\ result' = s.result
    /\ UNCHANGED <<map, reader>>

Init ==
    /\ map \in Records
    /\ reader \in Readers
    /\ name = None
    /\ kind = None
    /\ components = None
    /\ pos = 0
    /\ unread = FALSE
    /\ pc = "loop"
    /\ result = NoResult

KeyName ==
    /\ pc = "loop"
    /\ LET k == next_key(Cur, map, reader)
       IN  /\ k.ok /\ k.val.some /\ k.val.val.key = "name"
           /\ Becomes(NameArm(AtValue(Cur), k.val.val))

KeyType ==
    /\ pc = "loop"
    /\ LET k == next_key(Cur, map, reader)
       IN  /\ k.ok /\ k.val.some /\ k.val.val.key = "type"
           /\ Becomes(TypeArm(AtValue(Cur), k.val.val))

KeyComponents ==
    /\ pc = "loop"
    /\ LET k == next_key(Cur, map, reader)
       IN  /\ k.ok /\ k.val.some /\ k.val.val.key = "components"
           /\ Becomes(ComponentsArm(AtValue(Cur), k.val.val, reader))

KeyOther ==
    /\ pc = "loop"
    /\ LET k == next_key(Cur, map, reader)
       IN  /\ k.ok /\ k.val.some /\ k.val.val.key \notin RecognizedKeys
           /\ Becomes(OtherArm(AtValue(Cur)))

KeyError ==
    /\ pc = "loop"
    /\ LET k == next_key(Cur, map, reader)
       IN  /\ ~k.ok
           /\ Becomes(Abort(Cur, k))

EndOfMap ==
    /\ pc = "loop"
    /\ LET k == next_key(Cur, map, reader)
       IN  /\ k.ok /\ ~k.val.some
           /\ Becomes(Return(Cur, Finish(Cur)))

Next == KeyName \/ KeyType \/ KeyComponents \/ KeyOther \/ KeyError \/ EndOfMap

Spec == Init /\ [][Next]_vars

(***************************************************************************)
(* Vocabulary of the properties.                                           *)
(***************************************************************************)
Has(record, k) == \E i \in 1..Len(record) : record[i].key = k

FirstAt(record, k) ==
    CHOOSE i \in 1..Len(record) :
        record[i].key = k /\ \A j \in 1..(i - 1) : record[j].key # k

NameOf(record) == record[FirstAt(record, "name")].str
TypeOf(record) == record[FirstAt(record, "type")].ty
CompsOf(record) == record[FirstAt(record, "components")].comps

\* The direct parse of the record's type string.
ParsedType(record) == Read(TypeOf(record)).val

TupleShaped(k) ==
    \/ k.tag = "Tuple"
    \/ k.tag \in {"Array", "FixedArray"} /\ k.inner.tag = "Tuple"

\* The kinds the entries of a components list resolve to, entry by entry.
RECURSIVE ResolvedKinds(_, _)
ResolvedKinds(cs, rd) ==
    IF cs = <<>> THEN <<>>
    ELSE <<TupleParam_deserialize(Head(cs), rd).val.kind>> \o ResolvedKinds(Tail(cs), rd)

IsTupleRecord(record) ==
    /\ Has(record, "type") /\ Has(record, "components")
    /\ TypeOf(record) = Ty("tuple", <<>>)

\* k is Tuple(ks), ks[i] the resolved kind of the i-th component of the
\* record, and so again for every component that is itself a tuple record.
RECURSIVE BoundTuple(_, _, _)
BoundTuple(record, k, rd) ==
    LET cs == CompsOf(record)
    IN  /\ k.tag = "Tuple"
        /\ Len(k.fields) = Len(cs)
        /\ \A i \in 1..Len(cs) :
              LET r == TupleParam_deserialize(cs[i], rd)
              IN  /\ r.ok
                  /\ k.fields[i] = r.val.kind
                  /\ IsTupleRecord(cs[i]) => BoundTuple(cs[i], k.fields[i], rd)

\* The kind below every Array / FixedArray wrapper.
RECURSIVE Core(_)
Core(k) == IF k.tag \in {"Array", "FixedArray"} THEN Core(k.inner) ELSE k

\* The record without its unrecognized keys.
Strip(record) == SelectSeq(record, LAMBDA e : e.key \in RecognizedKeys)

U48 == Uint(48)

(***************************************************************************)
(* Properties.  pc = "done" says that the key stream was read to its end   *)
(* without error: no recognized key occurred twice, every value read was   *)
(* accepted, and the cursor reported the end of the record.                *)
(***************************************************************************)

\* C1: a record read to its end with a name, type "tuple" and a components
\* list resolves to Tuple(ks), ks having one entry per component, ks[i] the
\* resolved kind of components[i] in declared order, at every nesting depth;
\* the parser's placeholder field list is discarded.
C1_TupleBinding ==
    (/\ pc = "done"
     /\ Has(map, "name") /\ Has(map, "type") /\ Has(map, "components")
     /\ TypeOf(map) = Ty("tuple", <<>>))
    => /\ result.ok
       /\ result.val.name = NameOf(map)
       /\ result.val.kind = Tuple(ResolvedKinds(CompsOf(map), reader))
       /\ BoundTuple(map, result.val.kind, reader)

C1_Witness ==
    /\ pc = "done"
    /\ map = <<NameE("foo"), TypeE(Ty("tuple", <<>>)),
               CompsE(<<LeafU, Nested(LeafA, 2)>>)>>
    /\ result = Ok(Param("foo", Tuple(<<U48, Tuple(<<U48, Tuple(<<U48, Address>>)>>)>>)))

\* C2: a record read to its end whose type parses to Array(Tuple(_)) and
\* that has a components list resolves to Array(Tuple(ks)), ks bound from
\* the components in declared order as for a bare tuple.
C2_ArrayBinding ==
    (/\ pc = "done"
     /\ Has(map, "name") /\ Has(map, "type") /\ Has(map, "components")
     /\ ParsedType(map).tag = "Array"
     /\ ParsedType(map).inner.tag = "Tuple")
    => result = Ok(Param(NameOf(map),
                         Array(Tuple(ResolvedKinds(CompsOf(map), reader)))))

C2_Witness ==
    /\ pc = "done"
    /\ map = <<NameE("foo"), TypeE(Ty("tuple", <<Dyn>>)),
               CompsE(<<LeafU, LeafA, LeafA>>)>>
    /\ result = Ok(Param("foo", Array(Tuple(<<U48, Address, Address>>))))

\* C3: a record read to its end whose type string ends in "[N]" resolves to
\* FixedArray(Tuple(ks), N) when the inner type is a tuple (ks bound from
\* the components in declared order), and to the parsed inner type with the
\* same N otherwise.
C3_FixedArrayBinding ==
    (/\ pc = "done"
     /\ Has(map, "name") /\ Has(map, "type")
     /\ ParsedType(map).tag = "FixedArray")
    => LET t == TypeOf(map)
           N == t.dims[Len(t.dims)].size
           inner == Read(Ty(t.base, SubSeq(t.dims, 1, Len(t.dims) - 1))).val
       IN  IF inner.tag = "Tuple"
           THEN Has(map, "components") =>
                    result = Ok(Param(NameOf(map),
                        FixedArray(Tuple(ResolvedKinds(CompsOf(map), reader)), N)))
           ELSE result = Ok(Param(NameOf(map), FixedArray(inner, N)))

C3_Witness ==
    /\ pc = "done"
    /\ map = <<NameE("foo"), TypeE(Ty("tuple", <<Fix(2)>>)),
               CompsE(<<LeafU, LeafA, LeafA>>)>>
    /\ result = Ok(Param("foo", FixedArray(Tuple(<<U48, Address, Address>>), 2)))

\* C4 (as claimed): no returned Parameter holds an unresolved tuple: the
\* Tuple below any number of array wrappers has the kinds of the components
\* as its fields, never the parser's placeholder.
C4_NoUnresolvedTuple ==
    (pc = "done" /\ result.ok /\ Core(result.val.kind).tag = "Tuple")
    => /\ components.some
       /\ Core(result.val.kind).fields = Kinds(components.val)

\* C5 (as claimed): the second occurrence of a recognized key ends the call
\* there with DuplicateField naming that key.
C5_DuplicateNamesKey ==
    \A i \in 1..pos :
        (/\ map[i].key \in RecognizedKeys
         /\ \E j \in 1..(i - 1) : map[j].key = map[i].key)
        => /\ pc = "aborted"
           /\ pos = i
           /\ result = Err(duplicate_field(map[i].key))

\* C6: a record read to its end with a name and a tuple-shaped type but no
\* components key fails with MissingField("components").
C6_MissingComponents ==
    (/\ pc = "done"
     /\ Has(map, "name") /\ Has(map, "type") /\ ~Has(map, "components")
     /\ TupleShaped(ParsedType(map)))
    => result = Err(missing_field("components"))

C6_Witness ==
    /\ pc = "done"
    /\ map = <<NameE("foo"), TypeE(Ty("tuple", <<Fix(1)>>))>>
    /\ result = Err(missing_field("components"))

\* C7 (as claimed): unrecognized keys change nothing: the outcome is that of
\* the record without them.
C7_ExtraKeysIgnored ==
    pc # "loop" => result = deserialize(Strip(map), reader)

\* C8 (as claimed): a record made of a name, a type that is not tuple-shaped
\* and possibly a components list resolves to the direct parse of the type,
\* whatever the components list contains.
C8_ComponentsNeverMatter ==
    (/\ pc # "loop"
     /\ \A i \in 1..Len(map) :
           /\ map[i].key \in RecognizedKeys
           /\ \A j \in 1..Len(map) : map[j].key = map[i].key => j = i
     /\ Has(map, "name") /\ Has(map, "type")
     /\ Read(TypeOf(map)).ok
     /\ ~TupleShaped(ParsedType(map)))
    => result = Ok(Param(NameOf(map), ParsedType(map)))

\* C8 (amended): a record read to its end (so every entry of a components
\* list it has resolved) with a name and a type that is not tuple-shaped
\* resolves to the direct parse of the type, with or without components.
C8_NonTuplePassThrough ==
    (/\ pc = "done"
     /\ Has(map, "name") /\ Has(map, "type")
     /\ ~TupleShaped(ParsedType(map)))
    => result = Ok(Param(NameOf(map), ParsedType(map)))

C8_Witness ==
    /\ pc = "done"
    /\ map = <<CompsE(<<LeafU, LeafA>>), TypeE(Ty("address", <<Fix(2)>>)), NameE("bar")>>
    /\ components = Some(<<Param("amount", U48), Param("to", Address)>>)
    /\ result = Ok(Param("bar", FixedArray(Address, 2)))

\* C9 (as claimed): missing fields are reported after the whole stream was
\* read, `name` first, then `type`, then `components`.
C9_MissingFieldOrder ==
    pc = "done" =>
        /\ pos = Len(map)
        /\ ~Has(map, "name") => result = Err(missing_field("name"))
        /\ Has(map, "name") /\ ~Has(map, "type") => result = Err(missing_field("type"))
        /\ (~result.ok /\ result.err = missing_field("components"))
              => Has(map, "name") /\ Has(map, "type")

\* C10: a type string that does not parse, or a components entry that does
\* not resolve (at whatever depth), ends the call at that key with exactly
\* that error; no later key is read and no Parameter is returned.
C10_ErrorsPropagate ==
    \A i \in 1..pos :
        LET e == map[i]
            first == \A j \in 1..(i - 1) : map[j].key # e.key
            nested == DeserializeVec(e.comps, reader, <<>>)
        IN  /\ (e.key = "type" /\ first /\ ~Read(e.ty).ok)
                  => pc = "aborted" /\ pos = i /\ result = Err(InvalidName)
            /\ (e.key = "components" /\ first /\ ~nested.ok)
                  => pc = "aborted" /\ pos = i /\ result = nested
            /\ (e.key = "components" /\ first
                   /\ \E d \in 1..MaxNest : e.comps = <<Nested(LeafBogus, d), LeafNoName>>)
                  => result = Err(InvalidName)

C10_Witness ==
    /\ pc = "aborted"
    /\ map = <<CompsE(<<Nested(LeafBogus, 2), LeafNoName>>),
               TypeE(Ty("tuple", <<>>)), NameE("bar")>>
    /\ pos = 1
    /\ result = Err(InvalidName)

====
